---- MODULE Spec2Model ----
(***************************************************************************)
(* A model of src/lambda_function.py: lambda_handler, the request           *)
(* orchestrator that stages a PDF in the object store, runs an OCR job on  *)
(* it, polls the job, paginates its result, asks the inference endpoint    *)
(* and answers.  One behaviour is one invocation of lambda_handler; the    *)
(* external services (object store, OCR, inference) answer                 *)
(* nondeterministically.                                                   *)
(*                                                                         *)
(* Text that the code slices (the extracted text, the prompt, the answer)  *)
(* is a sequence of characters; messages the code only concatenates are    *)
(* TLA+ strings.                                                           *)
(***************************************************************************)
EXTENDS Integers, Sequences, FiniteSets, TLC

VARIABLES
    event,        \* the invocation's event
    pc,           \* where lambda_handler stands
    response,     \* what lambda_handler returned (NoResponse until it returns)
    pdf_base64,   \* body.get('pdf_base64')
    question,     \* body.get('question')
    pdf_key,      \* the generated key, "" before it is generated
    s3,           \* the object store: the keys that hold an object
    job_id,       \* the OCR job identifier, "" before the job is started
    attempt,      \* the poll loop's variable: polls finished with a sleep
    job_status,   \* the response of the latest status poll
    pages_text,   \* the LINE texts collected so far
    next_token,   \* the continuation token of the page read last
    text,         \* ExtractedText
    answer,       \* the post-processed answer
    calls,        \* how often each external operation has been invoked
    clock,        \* time-units slept so far
    hist,         \* what the run has seen (history, not read by the handler)
    parked        \* the locals of a second invocation that runs concurrently

vars == <<event, pc, response, pdf_base64, question, pdf_key, s3, job_id,
          attempt, job_status, pages_text, next_token, text, answer, calls,
          clock, hist, parked>>

----------------------------------------------------------------------------
(* Bounds of the model *)

\* the OCR service hands out at most this many pages of one result
MaxPages == 2

(* Program constants *)

max_retries == 12
poll_interval == 5
max_context_length == 2000
preview_length == 200

----------------------------------------------------------------------------
(* Values *)

\* An optional value: Python's None (or an absent key), or a present value.
\* NoneStr stands where a string may be, None where a character sequence may.
NoneStr == [some |-> FALSE, v |-> ""]
None == [some |-> FALSE, v |-> <<>>]
Some(x) == [some |-> TRUE, v |-> x]

\* a JSON string, held as a sequence of characters
Chars(x) == [some |-> TRUE, v |-> x]

\* Python truthiness of an optional string or character sequence:
\* None and the empty string are falsy
Truthy(x) == x.some /\ Len(x.v) > 0

Headers == [ContentType |-> "application/json", AccessControlAllowOrigin |-> "*"]

NoResponse == [statusCode |-> 0]

\* ", ".join(parts)
RECURSIVE JoinComma(_)
JoinComma(parts) ==
    IF parts = <<>> THEN ""
    ELSE IF Len(parts) = 1 THEN parts[1]
    ELSE parts[1] \o ", " \o JoinComma(Tail(parts))

\* " ".join(parts) over character sequences
RECURSIVE JoinSpace(_)
JoinSpace(parts) ==
    IF parts = <<>> THEN <<>>
    ELSE IF Len(parts) = 1 THEN parts[1]
    ELSE parts[1] \o <<" ">> \o JoinSpace(Tail(parts))

\* s[:n]
Prefix(s, n) == SubSeq(s, 1, IF Len(s) < n THEN Len(s) ELSE n)

\* an error response without the cross-origin header
create_error_response_no_cors(status_code, error_message, error_details) ==
    [statusCode |-> status_code,
     headers |-> [ContentType |-> "application/json"],
     body |-> [error |-> error_message,
               details |-> IF Truthy(error_details) THEN error_details.v
                           ELSE error_message]]

\* lines 14-26
create_error_response(status_code, error_message, error_details) ==
    [statusCode |-> status_code,
     headers |-> Headers,
     body |-> [error |-> error_message,
               details |-> IF Truthy(error_details) THEN error_details.v
                           ELSE error_message]]

----------------------------------------------------------------------------
(* The request: event['body'] and what json.loads makes of it *)

PdfOk == <<"J", "V", "A", "=">>     \* decodes
PdfBad == <<"A">>                   \* base64.b64decode raises binascii.Error

Q == <<"q", "?">>

\* a decoded JSON object: the fields that are present, with their values
Obj(f) == [kind |-> "object", fields |-> f]
NonObj(k) == [kind |-> k, fields |-> <<>>]

\* event kinds: no 'body' key, body null, body a string, event not a dict
NoBodyKey == [kind |-> "nokey", raw |-> ""]
NullBody == [kind |-> "null", raw |-> ""]
NotADict == [kind |-> "notdict", raw |-> ""]
Raw(s) == [kind |-> "str", raw |-> s]

RawBodies ==
    {"", "{", "{\"question\": \"q?\"", "[]", "null", "\"x\"", "{}",
     "{\"question\": \"q?\"}",
     "{\"pdf_base64\": \"JVA=\"}",
     "{\"question\": \"\"}",
     "{\"pdf_base64\": \"\"}",
     "{\"pdf_base64\": \"\", \"question\": \"\"}",
     "{\"pdf_base64\": null, \"question\": \"q?\"}",
     "{\"pdf_base64\": \"JVA=\", \"question\": \"\"}",
     "{\"pdf_base64\": \"A\", \"question\": \"q?\"}",
     "{\"pdf_base64\": \"JVA=\", \"question\": \"q?\"}"}

Events == {NoBodyKey, NullBody, NotADict} \cup {Raw(s) : s \in RawBodies}

\* json.loads on the strings of RawBodies: ok = FALSE is json.JSONDecodeError
Decoded(x) == [ok |-> TRUE, val |-> x]
DecodeError == [ok |-> FALSE, val |-> NonObj("undecoded")]

json_loads(s) ==
    CASE s = "" -> DecodeError
      [] s = "{" -> DecodeError
      [] s = "{\"question\": \"q?\"" -> DecodeError
      [] s = "[]" -> Decoded(NonObj("list"))
      [] s = "null" -> Decoded(NonObj("none"))
      [] s = "\"x\"" -> Decoded(NonObj("str"))
      [] s = "{}" -> Decoded(Obj(<<>>))
      [] s = "{\"question\": \"q?\"}" -> Decoded(Obj([question |-> Chars(Q)]))
      [] s = "{\"pdf_base64\": \"JVA=\"}" -> Decoded(Obj([pdf_base64 |-> Chars(PdfOk)]))
      [] s = "{\"question\": \"\"}" -> Decoded(Obj([question |-> Chars(<<>>)]))
      [] s = "{\"pdf_base64\": \"\"}" -> Decoded(Obj([pdf_base64 |-> Chars(<<>>)]))
      [] s = "{\"pdf_base64\": \"\", \"question\": \"\"}" ->
            Decoded(Obj([pdf_base64 |-> Chars(<<>>), question |-> Chars(<<>>)]))
      [] s = "{\"pdf_base64\": null, \"question\": \"q?\"}" ->
            Decoded(Obj([pdf_base64 |-> None, question |-> Chars(Q)]))
      [] s = "{\"pdf_base64\": \"JVA=\", \"question\": \"\"}" ->
            Decoded(Obj([pdf_base64 |-> Chars(PdfOk), question |-> Chars(<<>>)]))
      [] s = "{\"pdf_base64\": \"A\", \"question\": \"q?\"}" ->
            Decoded(Obj([pdf_base64 |-> Chars(PdfBad), question |-> Chars(Q)]))
      [] s = "{\"pdf_base64\": \"JVA=\", \"question\": \"q?\"}" ->
            Decoded(Obj([pdf_base64 |-> Chars(PdfOk), question |-> Chars(Q)]))

\* dict.get(key): None when the key is absent
Get(fields, key) == IF key \in DOMAIN fields THEN fields[key] ELSE None

\* the names in the other order
missing_params_swapped(pdf, q) ==
    (IF ~Truthy(q) THEN <<"question">> ELSE <<>>)
    \o (IF ~Truthy(pdf) THEN <<"pdf_base64">> ELSE <<>>)

\* lines 44-48: the names of the parameters that are falsy, pdf_base64 first
missing_params(pdf, q) ==
    (IF ~Truthy(pdf) THEN <<"pdf_base64">> ELSE <<>>)
    \o (IF ~Truthy(q) THEN <<"question">> ELSE <<>>)

\* a validation that forgets the question
validation_only_pdf(pdf, q) == ~Truthy(pdf)

\* line 44: not all([pdf_base64, question])
validation_fails(pdf, q) == ~(Truthy(pdf) /\ Truthy(q))

\* str(e) of the AttributeError that body.get raises on a decoded non-object
AttributeErrorMsg(k) ==
    CASE k = "list" -> "'list' object has no attribute 'get'"
      [] k = "none" -> "'NoneType' object has no attribute 'get'"
      [] k = "str" -> "'str' object has no attribute 'get'"
      [] OTHER -> "object has no attribute 'get'"

\* lines 186-188: the outermost handler
UnexpectedError(msg) ==
    create_error_response(500, "Unexpected error: " \o msg, NoneStr)

\* lines 29-48: what parsing and validating the event returns, NoResponse when
\* the request passes validation
ParseResult(ev) ==
    IF ev.kind = "notdict"
    THEN UnexpectedError(AttributeErrorMsg("list"))
    ELSE IF ev.kind = "null"
    THEN UnexpectedError("the JSON object must be str, bytes or bytearray, not NoneType")
    ELSE LET d == json_loads(IF ev.kind = "nokey" THEN "{}" ELSE ev.raw) IN
         IF ~d.ok
         THEN create_error_response(400, "Invalid JSON in request body", NoneStr)
         ELSE IF d.val.kind # "object"
         THEN UnexpectedError(AttributeErrorMsg(d.val.kind))
         ELSE LET pdf == Get(d.val.fields, "pdf_base64")
                  q == Get(d.val.fields, "question")
              IN IF validation_fails(pdf, q)
                 THEN create_error_response(400,
                          "Missing required parameters: "
                              \o JoinComma(missing_params(pdf, q)), NoneStr)
                 ELSE NoResponse

\* the decoded body's fields, when the body decodes to an object
BodyFields(ev) ==
    IF ev.kind \in {"notdict", "null"} THEN <<>>
    ELSE LET d == json_loads(IF ev.kind = "nokey" THEN "{}" ELSE ev.raw) IN
         IF d.ok /\ d.val.kind = "object" THEN d.val.fields ELSE <<>>

----------------------------------------------------------------------------
(* The object store and the OCR service *)

\* uuid.uuid4(): the identifiers it may draw
\* the identifiers uuid.uuid4() returns, in the order it returns them: no
\* two calls return the same one
Uuids == <<"0b6f", "e1c2">>

\* line 51: uuid.uuid4(), the second identifier when the other invocation
\* has drawn the first
uuid4 == Uuids[IF parked.pdf_key = "" THEN 1 ELSE 2]

\* one key for every document
KeyOf_fixed(u) == "uploads/document.pdf"

\* line 51
KeyOf(u) == "uploads/" \o u \o ".pdf"

\* the JobId values start_document_text_detection returns, in order
JobIds == <<"job-1", "job-2">>

\* lines 62-68: the JobId of a job just started
NewJobId == JobIds[IF parked.job_id = "" THEN 1 ELSE 2]

\* how a call of an external service can end other than by returning
ClientError == "ClientError"                 \* botocore.exceptions.ClientError
OtherError == "EndpointConnectionError"      \* any other Exception
Raises == {ClientError, OtherError}

\* str(e) of such an exception
ExcMsg(e) ==
    IF e = ClientError THEN "An error occurred (AccessDenied)"
    ELSE "Could not connect to the endpoint URL"

\* blocks of an OCR result page
LineA == [BlockType |-> "LINE", Text |-> Chars(<<"a">>)]
LineB == [BlockType |-> "LINE", Text |-> Chars(<<"b", "c">>)]
LineNoText == [BlockType |-> "LINE", Text |-> None]
Word == [BlockType |-> "WORD", Text |-> Chars(<<"w">>)]
PageBlock == [BlockType |-> "PAGE", Text |-> None]

\* lines long enough for the cut-offs of lines 124 and 176: two LongLines on
\* two pages exceed max_context_length by one character, and a MidLine after
\* a page of four or five characters has preview_length characters or one more
Repeat(c, n) == [i \in 1..n |-> c]
LongLine == [BlockType |-> "LINE", Text |-> Chars(Repeat("x", max_context_length \div 2))]
MidLine == [BlockType |-> "LINE", Text |-> Chars(Repeat("y", preview_length - 5))]

\* the 'Blocks' a response may carry
Pages ==
    {<<>>,
     <<PageBlock, Word>>,
     <<LineNoText>>,
     <<LineA>>,
     <<PageBlock, LineB, Word, LineA>>,
     <<LineA, LineNoText, LineB>>,
     <<LongLine>>,
     <<MidLine>>}

\* the 'NextToken' a response may carry: absent, empty, or a token
\* (the token a page carries names the page that follows it)
TruthyTokens(n) == {Some("t" \o ToString(n + 1))}
FalsyTokens == {NoneStr, Some("")}

\* the service stops handing out continuation tokens at MaxPages pages
TokensAfter(n) == IF n < MaxPages THEN FalsyTokens \cup TruthyTokens(n) ELSE FalsyTokens

StatusMessages == {NoneStr, Some(""), Some("Unsupported document")}

\* two invocations run: the services then answer from the smaller sets below
Narrow == parked.pc # "absent"

\* what get_document_text_detection may return to a status poll
AnyPollResponse ==
    [JobStatus : {"RUNNING", "PARTIAL_SUCCESS"}, Blocks : {<<>>},
     NextToken : {NoneStr}, StatusMessage : {NoneStr}]
    \cup [JobStatus : {"FAILED"}, Blocks : {<<>>},
          NextToken : {NoneStr}, StatusMessage : StatusMessages]
    \cup [JobStatus : {"SUCCEEDED"}, Blocks : Pages,
          NextToken : TokensAfter(1), StatusMessage : {NoneStr}]

\* the same with two invocations: RUNNING is the answer to a first poll only
NarrowPollResponses ==
    (IF attempt = 0
     THEN [JobStatus : {"RUNNING"}, Blocks : {<<>>},
           NextToken : {NoneStr}, StatusMessage : {NoneStr}]
     ELSE {})
    \cup [JobStatus : {"FAILED"}, Blocks : {<<>>},
          NextToken : {NoneStr}, StatusMessage : {Some("Unsupported document")}]
    \cup [JobStatus : {"SUCCEEDED"}, Blocks : {<<LineA>>},
          NextToken : {NoneStr} \cup TruthyTokens(1), StatusMessage : {NoneStr}]

PollResponses == IF Narrow THEN NarrowPollResponses ELSE AnyPollResponse

\* what it may return to the fetch of page n, n > 1
AnyPageResponse(n) ==
    [JobStatus : {"SUCCEEDED"}, Blocks : Pages,
     NextToken : TokensAfter(n), StatusMessage : {NoneStr}]

\* the same with two invocations: the second page is the last
NarrowPageResponses ==
    [JobStatus : {"SUCCEEDED"}, Blocks : {<<LineB>>},
     NextToken : {NoneStr}, StatusMessage : {NoneStr}]

PageResponses(n) == IF Narrow THEN NarrowPageResponses ELSE AnyPageResponse(n)

NoJobStatus ==
    [JobStatus |-> "", Blocks |-> <<>>, NextToken |-> NoneStr, StatusMessage |-> NoneStr]

\* a filter that lets every block through
is_line_any(block) == TRUE

\* line 94: the block is a line of text
is_line(block) == block.BlockType = "LINE"

\* lines 93-95: the texts one page appends to pages_text
RECURSIVE line_texts(_)
line_texts(blocks) ==
    IF blocks = <<>> THEN <<>>
    ELSE (IF is_line(blocks[1])
          THEN <<IF blocks[1].Text.some THEN blocks[1].Text.v ELSE <<>>>>
          ELSE <<>>)
         \o line_texts(Tail(blocks))

\* line 79
is_succeeded(status) == status = "SUCCEEDED"

\* a FAILED status that is not recognised
is_failed_never(status) == FALSE

\* line 105
is_failed(status) == status = "FAILED"

\* line 101
join_pages(pt) == JoinSpace(pt)

\* a loop that runs once more
loop_continues_once_more(a) == a <= max_retries

\* a poll loop without a bound
loop_continues_always(a) == TRUE

\* line 74: the loop goes on to attempt a
loop_continues(a) == a < max_retries

\* line 109
sleep_time == poll_interval

\* lines 183-184
TextractError(msg) ==
    create_error_response(500, "Textract processing error: " \o msg, NoneStr)

\* lines 105-107
FailedResponse(js) ==
    create_error_response(500, "Textract processing failed",
        IF js.StatusMessage.some THEN js.StatusMessage
        ELSE Some("No error details available"))

\* lines 111-112
TimeoutResponse == create_error_response(500, "Textract processing timeout", NoneStr)

----------------------------------------------------------------------------
(* The inference endpoint and the answer *)

\* the constant parts of the prompt of line 128, each held as one element
PromptHead == "Provide a detailed answer to the following question based on the context. Only respond with the answer, without any additional questions.\n\nContext: "
PromptMid == "\n\nQuestion: "
PromptTail == "\n\nAnswer:"

\* the context of the line commented out at line 125: the whole text
text_chunk_uncut(t) == t

\* lines 123-124
text_chunk(t) == Prefix(t, max_context_length)

\* line 128
prompt_of(t, q) == <<PromptHead>> \o text_chunk(t) \o <<PromptMid>> \o q \o <<PromptTail>>

Whitespace == {" ", "\n", "\t", "\r"}

\* str.replace(sub, ''): every non-overlapping occurrence, left to right
RECURSIVE Remove(_, _)
Remove(str, sub) ==
    IF Len(str) < Len(sub) \/ sub = <<>> THEN str
    ELSE IF SubSeq(str, 1, Len(sub)) = sub
         THEN Remove(SubSeq(str, Len(sub) + 1, Len(str)), sub)
         ELSE <<str[1]>> \o Remove(Tail(str), sub)

\* str.strip()
RECURSIVE Strip(_)
Strip(str) ==
    IF str = <<>> THEN str
    ELSE IF str[1] \in Whitespace THEN Strip(Tail(str))
    ELSE IF str[Len(str)] \in Whitespace THEN Strip(SubSeq(str, 1, Len(str) - 1))
    ELSE str

NoAnswerFound == <<"No answer found">>

\* the generated_text an element of the response may carry
Generated(p) ==
    {None, Chars(<<"4", "2">>), Chars(p \o <<" ", "4", "2", "\n">>), Chars(<<" ">>)}

Element(g) == [generated_text |-> g]

\* api_response.json(): not JSON, one object, a list of objects, another value
AnyInferenceData(p) ==
    {[shape |-> "invalid", items |-> <<>>],
     [shape |-> "other", items |-> <<>>],
     [shape |-> "list", items |-> <<>>]}
    \cup {[shape |-> "object", items |-> <<Element(g)>>] : g \in Generated(p)}
    \cup {[shape |-> "list", items |-> <<Element(g), Element(Chars(<<"9">>))>>] :
              g \in Generated(p)}

\* the same with two invocations: a list of one object
NarrowInferenceData(p) ==
    {[shape |-> "list", items |-> <<Element(Chars(p \o <<" ", "4", "2", "\n">>))>>]}

InferenceData(p) == IF Narrow THEN NarrowInferenceData(p) ELSE AnyInferenceData(p)

\* lines 151-154: the generated text, raised = the exception the lookup raises
generated_text(data) ==
    IF data.shape = "list"
    THEN IF data.items = <<>>
         THEN [raised |-> "list index out of range", v |-> <<>>]
         ELSE [raised |-> "",
               v |-> IF data.items[1].generated_text.some
                     THEN data.items[1].generated_text.v ELSE NoAnswerFound]
    ELSE IF data.shape = "object"
    THEN [raised |-> "",
          v |-> IF data.items[1].generated_text.some
                THEN data.items[1].generated_text.v ELSE NoAnswerFound]
    ELSE [raised |-> "'str' object has no attribute 'get'", v |-> <<>>]

\* line 157
clean_answer(a, p) == Strip(Remove(a, p))

\* a preview that also marks a text of exactly preview_length characters
text_preview_from(t) ==
    IF Len(t) >= preview_length THEN Prefix(t, preview_length) \o <<".", ".", ".">> ELSE t

\* line 176
text_preview(t) ==
    IF Len(t) > preview_length THEN Prefix(t, preview_length) \o <<".", ".", ".">> ELSE t

\* lines 167-178
success_response(q, a, t) ==
    [statusCode |-> 200,
     headers |-> Headers,
     body |-> [question |-> q, answer |-> a, textPreview |-> text_preview(t)]]

\* line 163: the deletion failures the handler swallows
delete_swallowed(e) == e = ClientError

----------------------------------------------------------------------------
(* lambda_handler *)

NoCalls == [put |-> 0, start |-> 0, get |-> 0, post |-> 0, delete |-> 0]

NoHist ==
    [polls |-> 0,            \* status polls of the loop
     sleeps |-> 0,           \* sleeps of the loop
     onlyRunning |-> TRUE,   \* every poll so far reported RUNNING
     terminal |-> "",        \* the terminal status a poll reported
     terminalAt |-> 0,       \* the attempt (from 1) that reported it
     lastPollAt |-> 0,       \* clock of the latest poll
     minGap |-> poll_interval,   \* least time between two consecutive polls
     pages |-> <<>>,         \* the Blocks of the pages read, in fetch order
     sent |-> <<>>,          \* the NextToken of each page fetch request
     putOK |-> FALSE,
     post |-> "none",        \* "none", "raised", "non200", "ok"
     del |-> "none",         \* "none", "ok", or the exception delete raised
     raised |-> "",          \* the external call that raised, "" when none did
     tokens |-> <<>>,        \* the NextToken of each page read, in fetch order
     data |-> [shape |-> "none", items |-> <<>>],   \* what the endpoint answered
     prompt |-> <<>>,        \* the prompt sent to the endpoint
     args |-> {},            \* the keys and job identifiers passed to services
     log |-> <<>>]           \* external calls and sleeps, in order

\* the locals of an invocation with the event ev, before its first step
Fresh(ev) ==
    [event |-> ev, pc |-> "start", response |-> NoResponse, pdf_base64 |-> None,
     question |-> None, pdf_key |-> "", job_id |-> "", attempt |-> 0,
     job_status |-> NoJobStatus, pages_text |-> <<>>, next_token |-> NoneStr,
     text |-> <<>>, answer |-> <<>>, calls |-> NoCalls, clock |-> 0,
     hist |-> NoHist]

\* no second invocation
NoRequest == [Fresh(NoBodyKey) EXCEPT !.pc = "absent"]

Init ==
    /\ event \in Events
    /\ pc = "start"
    /\ response = NoResponse
    /\ pdf_base64 = None
    /\ question = None
    /\ pdf_key = ""
    /\ s3 = {}
    /\ job_id = ""
    /\ attempt = 0
    /\ job_status = NoJobStatus
    /\ pages_text = <<>>
    /\ next_token = NoneStr
    /\ text = <<>>
    /\ answer = <<>>
    /\ calls = NoCalls
    /\ clock = 0
    /\ hist = NoHist
    /\ parked = NoRequest

\* a response that is built but not returned: the handler stays where it is
Return_forgotten(r) == pc' = pc /\ response' = r

\* the handler returns r
Return(r) == pc' = "done" /\ response' = r

\* a client that sends a request again after sending it
CallWithRetry(op) == calls' = [calls EXCEPT ![op] = @ + 2]

\* one invocation of the external operation op
Call(op) == calls' = [calls EXCEPT ![op] = @ + 1]

\* lines 29-51: parse the body, validate the parameters, generate the key
ParseRequest ==
    /\ pc = "start"
    /\ LET r == ParseResult(event) IN
       IF r.statusCode # 0
       THEN /\ Return(r)
            /\ UNCHANGED <<pdf_base64, question, pdf_key>>
       ELSE /\ pc' = "put"
            /\ pdf_base64' = Get(BodyFields(event), "pdf_base64")
            /\ question' = Get(BodyFields(event), "question")
            /\ pdf_key' = KeyOf(uuid4)
            /\ UNCHANGED response
    /\ UNCHANGED parked
    /\ UNCHANGED <<event, s3, job_id, attempt, job_status, pages_text, next_token,
                   text, answer, calls, clock, hist>>

\* base64.b64decode accepts the payload (its length is a multiple of four)
b64decode_ok(p) == Len(p) % 4 = 0

\* the key or job identifier the call named what passes to its service
ArgOf(what) ==
    IF what \in {"put", "start", "delete"} THEN {pdf_key}      \* lines 57, 65, 161
    ELSE IF what \in {"poll", "fetch"} THEN {job_id}           \* lines 76, 87
    ELSE {}

Log(h, what) == [h EXCEPT !.log = Append(@, what), !.args = @ \cup ArgOf(what)]

\* lines 53-60: decode the payload and put the object
PutObject ==
    /\ pc = "put"
    /\ IF ~b64decode_ok(pdf_base64.v)
       THEN /\ Return(UnexpectedError("Invalid base64-encoded string"))
            /\ UNCHANGED <<s3, calls, hist>>
       ELSE /\ Call("put")
            /\ \/ /\ s3' = s3 \cup {pdf_key}
                  /\ hist' = [Log(hist, "put") EXCEPT !.putOK = TRUE]
                  /\ pc' = "start_job"
                  /\ UNCHANGED response
               \/ /\ \E e \in Raises :
                        Return(IF e = ClientError
                               THEN create_error_response(500,
                                        "S3 upload error: " \o ExcMsg(e), NoneStr)
                               ELSE UnexpectedError(ExcMsg(e)))
                  /\ hist' = [Log(hist, "put") EXCEPT !.raised = "put"]
                  /\ UNCHANGED s3
    /\ UNCHANGED parked
    /\ UNCHANGED <<event, pdf_base64, question, pdf_key, job_id, attempt, job_status,
                   pages_text, next_token, text, answer, clock>>

\* lines 62-73: start the OCR job
StartJob ==
    /\ pc = "start_job"
    /\ Call("start")
    /\ \/ /\ job_id' = NewJobId
          /\ hist' = Log(hist, "start")
          /\ pc' = "poll"
          /\ UNCHANGED response
       \/ /\ \E e \in Raises : Return(TextractError(ExcMsg(e)))
          /\ hist' = [Log(hist, "start") EXCEPT !.raised = "start"]
          /\ UNCHANGED job_id
    /\ UNCHANGED parked
    /\ UNCHANGED <<event, pdf_base64, question, pdf_key, s3, attempt, job_status,
                   pages_text, next_token, text, answer, clock>>

\* the loop's end without the check of the text
AfterLoop_unchecked(t) == pc' = "post" /\ UNCHANGED response

\* an empty text that sends the handler back to waiting
AfterLoop_polls_again(t) ==
    IF t = <<>> THEN pc' = "sleep" /\ UNCHANGED response
    ELSE pc' = "post" /\ UNCHANGED response

\* lines 111-114: after the loop, with the text t
AfterLoop(t) ==
    IF t = <<>> THEN Return(TimeoutResponse)
    ELSE pc' = "post" /\ UNCHANGED response

\* lines 97-103: after a page with the token tok, with the texts pt
AfterPage(tok, pt) ==
    /\ next_token' = tok
    /\ pages_text' = pt
    /\ IF Truthy(tok)
       THEN pc' = "fetch" /\ UNCHANGED <<text, response>>
       ELSE text' = join_pages(pt) /\ AfterLoop(text')

Min(a, b) == IF a < b THEN a ELSE b

Polled(h, status) ==
    [Log(h, "poll") EXCEPT
        !.polls = @ + 1,
        !.onlyRunning = @ /\ status = "RUNNING",
        !.terminal = IF status \in {"SUCCEEDED", "FAILED"} THEN status ELSE @,
        !.terminalAt = IF status \in {"SUCCEEDED", "FAILED"} THEN h.polls + 1 ELSE @,
        !.minGap = IF h.polls > 0 THEN Min(@, clock - h.lastPollAt) ELSE @,
        !.lastPollAt = clock]

\* lines 74-107: one status poll and what its status leads to
Poll ==
    /\ pc = "poll"
    /\ Call("get")
    /\ \/ /\ \E e \in Raises : Return(TextractError(ExcMsg(e)))
          /\ hist' = [Polled(hist, "raised") EXCEPT !.raised = "poll"]
          /\ UNCHANGED <<job_status, pages_text, next_token, text>>
       \/ \E r \in PollResponses :
            /\ job_status' = r
            /\ IF is_succeeded(r.JobStatus)
               THEN /\ hist' = [Polled(hist, r.JobStatus) EXCEPT
                                    !.pages = <<r.Blocks>>,
                                    !.tokens = <<r.NextToken>>]
                    /\ AfterPage(r.NextToken, line_texts(r.Blocks))
               ELSE /\ hist' = Polled(hist, r.JobStatus)
                    /\ IF is_failed(r.JobStatus)
                       THEN Return(FailedResponse(r))
                       ELSE pc' = "sleep" /\ UNCHANGED response
                    /\ UNCHANGED <<pages_text, next_token, text>>
    /\ UNCHANGED parked
    /\ UNCHANGED <<event, pdf_base64, question, pdf_key, s3, job_id, attempt,
                   answer, clock>>

\* lines 109 and 74: sleep, then the next attempt or the end of the loop
Sleep ==
    /\ pc = "sleep"
    /\ clock' = clock + sleep_time
    /\ hist' = [Log(hist, "sleep") EXCEPT !.sleeps = @ + 1]
    /\ IF loop_continues(attempt + 1)
       THEN attempt' = attempt + 1 /\ pc' = "poll" /\ UNCHANGED response
       ELSE UNCHANGED attempt /\ AfterLoop(text)
    /\ UNCHANGED parked
    /\ UNCHANGED <<event, pdf_base64, question, pdf_key, s3, job_id, job_status,
                   pages_text, next_token, text, answer, calls>>

\* a fetch that sends no token, and so asks for the first page again
fetch_token_none(tok) == ""

\* line 88: the NextToken parameter of a page fetch
fetch_token(tok) == tok.v

\* lines 85-103: fetch the page the continuation token names, R being what
\* the service may return
FetchPageOf(R) ==
    /\ pc = "fetch"
    /\ Call("get")
    /\ \/ /\ \E e \in Raises : Return(TextractError(ExcMsg(e)))
          /\ hist' = [Log(hist, "fetch") EXCEPT !.sent = Append(@, fetch_token(next_token)),
                                                !.raised = "fetch"]
          /\ UNCHANGED <<pages_text, next_token, text>>
       \/ \E r \in R :
            /\ hist' = [Log(hist, "fetch") EXCEPT
                            !.sent = Append(@, fetch_token(next_token)),
                            !.pages = Append(@, r.Blocks),
                            !.tokens = Append(@, r.NextToken)]
            /\ AfterPage(r.NextToken, pages_text \o line_texts(r.Blocks))
    /\ UNCHANGED parked
    /\ UNCHANGED <<event, pdf_base64, question, pdf_key, s3, job_id, attempt,
                   job_status, answer, clock>>

\* a page fetch with a service whose results end within MaxPages pages
FetchPage == FetchPageOf(PageResponses(Len(hist.pages) + 1))

\* what a service whose results need not end may return to the fetch of page
\* n: a page without blocks or with one line, with or without a token
EndlessResponses(n) ==
    [JobStatus : {"SUCCEEDED"}, Blocks : {<<>>, <<LineA>>},
     NextToken : FalsyTokens \cup TruthyTokens(n), StatusMessage : {NoneStr}]

\* the continuation token such a service hands out after the token tok, past
\* MaxPages pages: two token names alternate
TokenAfter(tok) ==
    IF tok = Some("t" \o ToString(MaxPages + 1))
    THEN Some("t" \o ToString(MaxPages + 2))
    ELSE Some("t" \o ToString(MaxPages + 1))

\* lines 85-103 past MaxPages pages: the page holds no block, and the history
\* and the call counts are no longer kept
FetchBeyond ==
    /\ pc = "fetch"
    /\ \/ /\ \E e \in Raises : Return(TextractError(ExcMsg(e)))
          /\ UNCHANGED <<pages_text, next_token, text>>
       \/ \E tok \in FalsyTokens \cup {TokenAfter(next_token)} :
            AfterPage(tok, pages_text \o line_texts(<<>>))
    /\ UNCHANGED parked
    /\ UNCHANGED <<event, pdf_base64, question, pdf_key, s3, job_id, attempt,
                   job_status, answer, clock, calls, hist>>

\* a page fetch with a service whose results need not end
FetchPageEndless ==
    IF Len(hist.pages) < MaxPages
    THEN FetchPageOf(EndlessResponses(Len(hist.pages) + 1))
    ELSE FetchBeyond

\* lines 114-157: call the inference endpoint and post-process its answer
PostInference ==
    /\ pc = "post"
    /\ Call("post")
    /\ LET p == prompt_of(text, question.v) IN
       \/ /\ Return(create_error_response(500,
                  "Error calling Hugging Face API: " \o "Read timed out", NoneStr))
          /\ hist' = [Log(hist, "post") EXCEPT !.post = "raised", !.raised = "post",
                                               !.prompt = p]
          /\ UNCHANGED answer
       \/ /\ Return(TextractError("unexpected failure"))
          /\ hist' = [Log(hist, "post") EXCEPT !.post = "raised", !.raised = "post",
                                               !.prompt = p]
          /\ UNCHANGED answer
       \/ /\ \E body \in {"", "Service Unavailable"} :
                Return(create_error_response(500,
                           "Hugging Face API error: " \o body, NoneStr))
          /\ hist' = [Log(hist, "post") EXCEPT !.post = "non200", !.prompt = p]
          /\ UNCHANGED answer
       \/ \E d \in InferenceData(p) :
            /\ hist' = [Log(hist, "post") EXCEPT !.post = "ok", !.data = d,
                                                 !.prompt = p]
            /\ IF d.shape = "invalid"
               THEN \* json() raises; which handler catches it depends on the
                    \* requests version (RequestException subclass or ValueError)
                    /\ \/ Return(create_error_response(500,
                              "Error calling Hugging Face API: " \o "Expecting value",
                              NoneStr))
                       \/ Return(TextractError("Expecting value"))
                    /\ UNCHANGED answer
               ELSE IF generated_text(d).raised # ""
               THEN /\ Return(TextractError(generated_text(d).raised))
                    /\ UNCHANGED answer
               ELSE /\ answer' = clean_answer(generated_text(d).v, p)
                    /\ pc' = "delete"
                    /\ UNCHANGED response
    /\ UNCHANGED parked
    /\ UNCHANGED <<event, pdf_base64, question, pdf_key, s3, job_id, attempt,
                   job_status, pages_text, next_token, text, clock>>

\* lines 159-178: delete the staged document and answer
DeleteObject ==
    /\ pc = "delete"
    /\ Call("delete")
    /\ \/ /\ s3' = s3 \ {pdf_key}
          /\ hist' = [Log(hist, "delete") EXCEPT !.del = "ok"]
          /\ Return(success_response(question.v, answer, text))
       \/ \E e \in Raises :
            /\ hist' = [Log(hist, "delete") EXCEPT !.del = e, !.raised = "delete"]
            /\ Return(IF delete_swallowed(e)
                      THEN success_response(question.v, answer, text)
                      ELSE TextractError(ExcMsg(e)))
            /\ UNCHANGED s3
    /\ UNCHANGED parked
    /\ UNCHANGED <<event, pdf_base64, question, pdf_key, job_id, attempt, job_status,
                   pages_text, next_token, text, answer, clock>>

Next ==
    \/ ParseRequest
    \/ PutObject
    \/ StartJob
    \/ Poll
    \/ Sleep
    \/ FetchPage
    \/ PostInference
    \/ DeleteObject

Spec == Init /\ [][Next]_vars

\* the locals of the invocation that is running
Locals ==
    [event |-> event, pc |-> pc, response |-> response, pdf_base64 |-> pdf_base64,
     question |-> question, pdf_key |-> pdf_key, job_id |-> job_id,
     attempt |-> attempt, job_status |-> job_status, pages_text |-> pages_text,
     next_token |-> next_token, text |-> text, answer |-> answer, calls |-> calls,
     clock |-> clock, hist |-> hist]

\* the platform runs the other invocation: the two exchange their places, the
\* store stays as it is
Switch ==
    /\ parked.pc \notin {"absent", "done"}
    /\ parked' = Locals
    /\ event' = parked.event
    /\ pc' = parked.pc
    /\ response' = parked.response
    /\ pdf_base64' = parked.pdf_base64
    /\ question' = parked.question
    /\ pdf_key' = parked.pdf_key
    /\ job_id' = parked.job_id
    /\ attempt' = parked.attempt
    /\ job_status' = parked.job_status
    /\ pages_text' = parked.pages_text
    /\ next_token' = parked.next_token
    /\ text' = parked.text
    /\ answer' = parked.answer
    /\ calls' = parked.calls
    /\ clock' = parked.clock
    /\ hist' = parked.hist
    /\ UNCHANGED s3

\* the events of two concurrent invocations: a valid request, and one
\* without a document
ConcEvents ==
    {Raw("{\"pdf_base64\": \"JVA=\", \"question\": \"q?\"}"),
     Raw("{\"question\": \"q?\"}")}

\* two invocations of lambda_handler, neither has taken a step
InitConc ==
    /\ event \in ConcEvents
    /\ pc = "start"
    /\ response = NoResponse
    /\ pdf_base64 = None
    /\ question = None
    /\ pdf_key = ""
    /\ s3 = {}
    /\ job_id = ""
    /\ attempt = 0
    /\ job_status = NoJobStatus
    /\ pages_text = <<>>
    /\ next_token = NoneStr
    /\ text = <<>>
    /\ answer = <<>>
    /\ calls = NoCalls
    /\ clock = 0
    /\ hist = NoHist
    /\ parked \in {Fresh(ev) : ev \in ConcEvents}

\* two invocations of lambda_handler that run in any interleaving
NextConc ==
    \/ ParseRequest
    \/ PutObject
    \/ StartJob
    \/ Poll
    \/ Sleep
    \/ FetchPage
    \/ PostInference
    \/ DeleteObject
    \/ Switch

SpecConc == InitConc /\ [][NextConc]_vars

\* the handler with a service whose results need not end; every call returns
\* or raises, so the handler always takes its next step
NextLive ==
    \/ ParseRequest
    \/ PutObject
    \/ StartJob
    \/ Poll
    \/ Sleep
    \/ FetchPageEndless
    \/ PostInference
    \/ DeleteObject

SpecLive == Init /\ [][NextLive]_vars /\ WF_vars(NextLive)

----------------------------------------------------------------------------
(* Properties *)

Done == pc = "done"

\* the event's body decodes to a JSON object
DecodesToObject(ev) ==
    /\ ev.kind \in {"nokey", "str"}
    /\ LET d == json_loads(IF ev.kind = "nokey" THEN "{}" ELSE ev.raw) IN
         d.ok /\ d.val.kind = "object"

\* the fields the decoded object does not hold
AbsentFields(ev) == {"pdf_base64", "question"} \ DOMAIN BodyFields(ev)

\* the fields the decoded object does not hold, or holds with null or ""
EmptyFields(ev) ==
    AbsentFields(ev)
    \cup {k \in DOMAIN BodyFields(ev) :
             ~BodyFields(ev)[k].some \/ BodyFields(ev)[k].v = <<>>}

\* the 400 response that names the fields of the set m, pdf_base64 first
MissingResponse(m) ==
    LET msg == "Missing required parameters: "
                 \o (IF m = {"pdf_base64"} THEN "pdf_base64"
                     ELSE IF m = {"question"} THEN "question"
                     ELSE "pdf_base64, question")
    IN [statusCode |-> 400, headers |-> Headers,
        body |-> [error |-> msg, details |-> msg]]

Malformed(ev) == ev.kind \in {"null", "str"} /\ ~DecodesToObject(ev)

InvalidBodyResponse ==
    [statusCode |-> 400, headers |-> Headers,
     body |-> [error |-> "Invalid JSON in request body",
               details |-> "Invalid JSON in request body"]]

\* C2: a request whose body is malformed structured data gets a 400 with one
\* fixed invalid-body message that does not depend on the body.
C2_MalformedIs400 ==
    (Done /\ Malformed(event)) => response = InvalidBodyResponse

\* the request fails validation: its body is an object with pdf_base64 or
\* question absent or empty
FailsValidation(ev) == DecodesToObject(ev) /\ EmptyFields(ev) # {}

\* C3: a request that fails validation is rejected with a 400 before any
\* external call, and no run that ends with a 400 has called the object
\* store, the OCR service or the inference endpoint.
C3_RejectedBeforeCalls ==
    /\ FailsValidation(event) =>
          /\ calls = NoCalls /\ hist.log = <<>> /\ s3 = {}
          /\ pc \in {"start", "done"}
          /\ Done => response.statusCode = 400
    /\ (Done /\ response.statusCode = 400) => (calls = NoCalls /\ hist.log = <<>>)

\* a request with a question and an empty pdf_base64 has been rejected
C3_Witness ==
    /\ Done
    /\ FailsValidation(event)
    /\ EmptyFields(event) = {"pdf_base64"}
    /\ response.statusCode = 400
    /\ calls = NoCalls

\* the log of a run that polled n times, sleeping after each poll but the
\* last when lastSleeps is false
RECURSIVE PollLog(_, _)
PollLog(n, lastSleeps) ==
    IF n = 0 THEN <<"put", "start">>
    ELSE PollLog(n - 1, TRUE) \o (IF lastSleeps THEN <<"poll", "sleep">> ELSE <<"poll">>)

\* C4: if the OCR job reports RUNNING on every poll, lambda_handler makes
\* exactly 12 status polls, a sleep of at least 5 time-units separates
\* consecutive polls, and the result is the 500 timeout error.
C4_RunningTimesOut ==
    /\ (hist.onlyRunning /\ job_id # "") =>
          /\ hist.polls <= 12 /\ calls.get = hist.polls
          /\ hist.minGap >= 5
          /\ Done => (hist.polls = 12 /\ clock >= 5 * 11)
    /\ (Done /\ hist.onlyRunning /\ job_id # "") =>
          /\ hist.log = PollLog(12, TRUE)
          /\ response.statusCode = 500
          /\ response.body.error = "Textract processing timeout"
          /\ response.body.details = "Textract processing timeout"

\* twelve polls reported RUNNING and the handler has returned
C4_Witness ==
    /\ Done
    /\ hist.onlyRunning
    /\ hist.polls = 12
    /\ response.body.error = "Textract processing timeout"

\* C5: if the OCR job reports FAILED on poll attempt k, lambda_handler
\* returns the 500 failure error at once: attempt k is the last status poll,
\* and no sleep and no other external call follows it.
C5_FailedStopsAtOnce ==
    hist.terminal = "FAILED" =>
        /\ Done
        /\ response.statusCode = 500
        /\ response.body.error = "Textract processing failed"
        /\ hist.terminalAt \in 1..12
        /\ hist.polls = hist.terminalAt
        /\ hist.log = PollLog(hist.terminalAt, FALSE)
        /\ calls = [put |-> 1, start |-> 1, get |-> hist.terminalAt,
                    post |-> 0, delete |-> 0]

\* the job failed on a poll after the first, and on the last one
C5_Witness ==
    /\ hist.terminal = "FAILED" /\ hist.terminalAt = 12 /\ Done
    /\ response.body.error = "Textract processing failed"

\* the blocks of all pages, in page order
RECURSIVE AllBlocks(_)
AllBlocks(pages) ==
    IF pages = <<>> THEN <<>> ELSE pages[1] \o AllBlocks(Tail(pages))

IsLineBlock(b) == b.BlockType = "LINE"

TextOf(b) == IF b.Text.some THEN b.Text.v ELSE <<>>

\* the texts ts[1..n] with one space between neighbours
RECURSIVE Spaced(_, _)
Spaced(ts, n) ==
    IF n = 0 THEN <<>>
    ELSE IF n = 1 THEN TextOf(ts[1])
    ELSE Spaced(ts, n - 1) \o <<" ">> \o TextOf(ts[n])

\* the LINE texts of the pages, in page-then-block order, space-joined
ExpectedText(pages) ==
    LET lines == SelectSeq(AllBlocks(pages), IsLineBlock)
    IN Spaced(lines, Len(lines))

\* the job succeeded and its last page has been read
PagesRead == hist.terminal = "SUCCEEDED" /\ ~Truthy(next_token)

\* C6: if the OCR job reports SUCCEEDED on poll attempt k and its result
\* spans N pages, ExtractedText is the texts of all LINE blocks, in block
\* order within a page and fetch order across pages, joined by single spaces;
\* other blocks add nothing, and the attempt k does not change the value.
C6_ExtractedText ==
    PagesRead =>
        /\ hist.terminalAt \in 1..12
        /\ text = ExpectedText(hist.pages)

\* two pages read after a success on the third poll, with LINE and other
\* blocks on them
C6_Witness ==
    /\ PagesRead
    /\ hist.terminalAt = 3
    /\ hist.pages = << <<PageBlock, LineB, Word, LineA>>, <<LineA, LineNoText, LineB>> >>
    /\ text = <<"b", "c", " ", "a", " ", "a", " ", " ", "b", "c">>

\* a downstream failure has happened: a call of the store, the OCR service or
\* the inference endpoint raised, the job FAILED, the twelve polls ran out,
\* or the endpoint answered with a non-success status
StoreFailed == hist.raised = "put"
SubmitFailed == hist.raised = "start"
PollingFailed == hist.raised \in {"poll", "fetch"} \/ hist.terminal = "FAILED"
TimedOut == hist.terminal = "" /\ hist.raised = "" /\ hist.polls = 12 /\ hist.sleeps = 12
InferenceFailed == hist.post \in {"raised", "non200"}

DownstreamFailed ==
    StoreFailed \/ SubmitFailed \/ PollingFailed \/ TimedOut \/ InferenceFailed

ErrorBody(r) == DOMAIN r.body = {"error", "details"}
AnswerBody(r) == DOMAIN r.body = {"question", "answer", "textPreview"}

\* C7: lambda_handler returns 200 only when the store put succeeded, the OCR
\* job was submitted, one of at most 12 polls reported SUCCEEDED, the
\* extracted text is not empty and the inference endpoint answered with a
\* success status; every failure of the store, the submission, the polling,
\* the poll budget or the inference call gives a 500 with an {error, details}
\* body.
C7_SuccessOnlyAfterAllSteps ==
    /\ (Done /\ response.statusCode = 200) =>
          /\ hist.putOK /\ calls.put = 1
          /\ job_id # "" /\ calls.start = 1
          /\ hist.terminal = "SUCCEEDED" /\ hist.polls <= 12
          /\ text # <<>>
          /\ hist.post = "ok"
          /\ ~DownstreamFailed
    /\ DownstreamFailed =>
          /\ Done
          /\ response.statusCode = 500
          /\ ErrorBody(response)

\* a run that answered 200 after a success on the twelfth poll
C7_Witness ==
    /\ Done /\ response.statusCode = 200
    /\ hist.terminalAt = 12 /\ hist.post = "ok" /\ text # <<>>

\* a run that ended in a 500 because the endpoint answered non-success
C7_WitnessFailure ==
    /\ Done /\ hist.post = "non200" /\ response.statusCode = 500

\* C8: a deletion of the staged document that fails, however it fails,
\* leaves the response as it is when the deletion succeeds: the 200 with the
\* {question, answer, textPreview} body.
C8_DeleteFailureIgnored ==
    hist.del \notin {"none", "ok"} =>
        /\ Done
        /\ response = [statusCode |-> 200, headers |-> Headers,
                       body |-> [question |-> question.v, answer |-> answer,
                                 textPreview |-> text_preview(text)]]

\* C9: no invocation crashes the handler: whatever the event and whatever
\* the services do, the handler goes on until it returns, and what it returns
\* has statusCode 200, 400 or 500, the headers Content-Type: application/json
\* and Access-Control-Allow-Origin: *, and a {question, answer, textPreview}
\* or an {error, details} body.
C9_AlwaysAResponse ==
    /\ pc \in {"start", "put", "start_job", "poll", "sleep", "fetch", "post",
               "delete", "done"}
    /\ ~Done => (response = NoResponse /\ ENABLED Next)
    /\ Done =>
          /\ response.statusCode \in {200, 400, 500}
          /\ response.headers = [ContentType |-> "application/json",
                                  AccessControlAllowOrigin |-> "*"]
          /\ IF response.statusCode = 200 THEN AnswerBody(response)
             ELSE ErrorBody(response)

\* a run in which a service call raised an exception other than ClientError
\* and the handler still returned a response
C9_Witness ==
    /\ Done
    /\ hist.raised = "fetch"
    /\ response.statusCode = 500
    /\ response.body.error = "Textract processing error: Could not connect to the endpoint URL"

\* C10: nothing is retried outside the poll loop: the store put, the job
\* submission, the inference POST and the store delete are each invoked at
\* most once in a run, and exactly once in a run that returns 200.
C10_NoRetries ==
    /\ calls.put <= 1 /\ calls.start <= 1 /\ calls.post <= 1 /\ calls.delete <= 1
    /\ (Done /\ response.statusCode = 200) =>
          (calls.put = 1 /\ calls.start = 1 /\ calls.post = 1 /\ calls.delete = 1)

\* a run that returned 200 although the delete raised
C10_Witness ==
    /\ Done /\ response.statusCode = 200
    /\ hist.del = ClientError
    /\ calls.delete = 1 /\ calls.post = 1

\* the endpoint answered with one object or with a sequence of objects
ObjectOrSequence(d) == d.shape = "object" \/ (d.shape = "list" /\ d.items # <<>>)

\* the generated text of the object, or of the first object of the sequence,
\* the placeholder when it has none
FirstGenerated(d) ==
    IF d.items[1].generated_text.some THEN d.items[1].generated_text.v
    ELSE <<"No answer found">>

\* C12: for every success-status inference response that is one object or a
\* sequence of objects, the request completes with a 200 whose answer is
\* taken from the object or from the first element of the sequence, with the
\* placeholder when the generated text is absent.
C12_AnswerFromFirstElement ==
    (Done /\ hist.post = "ok" /\ ObjectOrSequence(hist.data)) =>
        /\ response.statusCode = 200
        /\ response.body.answer =
               Strip(Remove(FirstGenerated(hist.data), prompt_of(text, question.v)))

\* the context embedded in a prompt p that ends with the question q: what
\* stands between the instruction and the question part
ContextOf(p, q) == SubSeq(p, 2, Len(p) - Len(q) - 2)

\* C13: the context embedded in the prompt sent to the inference endpoint is
\* the first min(len(ExtractedText), 2000) characters of ExtractedText: it
\* never has more than 2000 characters, and it is ExtractedText when that has
\* at most 2000.
C13_ContextCut ==
    calls.post >= 1 =>
        LET c == ContextOf(hist.prompt, question.v) IN
        /\ hist.prompt[1] = PromptHead
        /\ SubSeq(hist.prompt, Len(hist.prompt) - Len(question.v) - 1, Len(hist.prompt))
              = <<PromptMid>> \o question.v \o <<PromptTail>>
        /\ Len(c) <= 2000
        /\ Len(c) = IF Len(text) < 2000 THEN Len(text) ELSE 2000
        /\ \A i \in 1..Len(c) : c[i] = text[i]
        /\ Len(text) <= 2000 => c = text

\* a text of 2001 characters went out as a context of 2000
C13_Witness ==
    /\ calls.post = 1
    /\ Len(text) = 2001
    /\ Len(ContextOf(hist.prompt, question.v)) = 2000

\* C14: in every 200 response, textPreview is ExtractedText when that has at
\* most 200 characters, and its first 200 characters followed by the ellipsis
\* marker when it has more.
C14_TextPreview ==
    (Done /\ response.statusCode = 200) =>
        /\ Len(text) <= 200 => response.body.textPreview = text
        /\ Len(text) > 200 =>
              response.body.textPreview = SubSeq(text, 1, 200) \o <<".", ".", ".">>

\* a 200 response for a text of 201 characters
C14_Witness ==
    /\ Done /\ response.statusCode = 200
    /\ Len(text) = 201
    /\ Len(response.body.textPreview) = 203

\* a 200 response for a text of exactly 200 characters
C14_WitnessBoundary ==
    /\ Done /\ response.statusCode = 200
    /\ Len(text) = 200
    /\ response.body.textPreview = text

LastCall == IF hist.log = <<>> THEN "" ELSE hist.log[Len(hist.log)]

\* C15: a downstream error aborts the remaining steps: the OCR job is
\* submitted only after the put succeeded, the job is polled only after it
\* was submitted, the inference endpoint is called only after a poll reported
\* SUCCEEDED and the extracted text is not empty, and the first downstream
\* error (store, submission, poll, FAILED, timeout, inference) is the last
\* thing the run does: no OCR or inference call follows it.
C15_ErrorAborts ==
    /\ calls.start >= 1 => hist.putOK
    /\ calls.get >= 1 => job_id # ""
    /\ calls.post >= 1 =>
          (hist.terminal = "SUCCEEDED" /\ ~Truthy(next_token) /\ text # <<>>)
    /\ DownstreamFailed => Done
    /\ StoreFailed => (LastCall = "put" /\ calls.start = 0 /\ calls.get = 0 /\ calls.post = 0)
    /\ SubmitFailed => (LastCall = "start" /\ calls.get = 0 /\ calls.post = 0)
    /\ PollingFailed => (LastCall \in {"poll", "fetch"} /\ calls.post = 0)
    /\ TimedOut => (LastCall = "sleep" /\ calls.get = 12 /\ calls.post = 0)
    /\ InferenceFailed => (LastCall = "post" /\ calls.post = 1 /\ calls.delete = 0)

\* a page fetch raised after two polls, and nothing followed it
C15_Witness ==
    /\ Done
    /\ hist.raised = "fetch"
    /\ hist.polls = 2
    /\ calls = [put |-> 1, start |-> 1, get |-> 3, post |-> 0, delete |-> 0]

\* C17: when a poll returns FAILED, the details of the 500 response are the
\* status message of the service whenever the service supplied one, and
\* 'No error details available' in every other case.
C17_FailedDetails ==
    hist.terminal = "FAILED" =>
        /\ Done
        /\ response.statusCode = 500
        /\ response.body.details =
              IF job_status.StatusMessage.some THEN job_status.StatusMessage.v
              ELSE "No error details available"

\* C18: pagination starts from the page the SUCCEEDED poll returned and does
\* not fetch it again: when the job succeeds on poll attempt k and the result
\* has N pages, get_document_text_detection is called k + N - 1 times in
\* all, each later page is requested with the continuation token of the page
\* before it, and fetching stops at the first page without a token (NextToken
\* absent or empty).
C18_Pagination ==
    hist.terminal = "SUCCEEDED" =>
        LET N == Len(hist.pages)
            k == hist.terminalAt
            failed == IF hist.raised = "fetch" THEN 1 ELSE 0
        IN  /\ N >= 1 /\ Len(hist.tokens) = N
            /\ hist.pages[1] = job_status.Blocks
            /\ hist.polls = k
            /\ Len(hist.sent) = N - 1 + failed
            /\ calls.get = k + Len(hist.sent)
            /\ \A i \in 1..Len(hist.sent) :
                  Truthy(hist.tokens[i]) /\ hist.sent[i] = hist.tokens[i].v
            /\ pc = "fetch" => Truthy(hist.tokens[N])
            /\ PagesRead =>
                  /\ ~Truthy(hist.tokens[N])
                  /\ calls.get = k + N - 1
                  /\ text = ExpectedText(hist.pages)

\* a job that succeeded on the second poll with two pages
C18_Witness ==
    /\ PagesRead /\ Done
    /\ hist.terminalAt = 2
    /\ Len(hist.pages) = 2
    /\ hist.sent = <<"t2">>
    /\ calls.get = 3

\* C20: the staged document is deleted only on the success path: in every run
\* where the put succeeded and the response is not 200, no delete of the
\* staged key was attempted and the document is still in the store at the
\* return; a delete is attempted exactly when the run reaches the 200
\* response, after the inference call returned.
C20_DeleteOnlyOnSuccess ==
    /\ calls.delete >= 1 => hist.post = "ok"
    /\ Done =>
        /\ (hist.putOK /\ response.statusCode # 200) =>
              (calls.delete = 0 /\ pdf_key \in s3)
        /\ calls.delete = 1 <=> response.statusCode = 200

\* C19, as stated: every started request eventually returns a response, for
\* every behaviour of the services in which each call returns or raises.
C19_AlwaysReturns == <>Done

\* C19, amended: the poll loop ends after at most max_retries polls, and every
\* started request eventually returns a response unless the OCR service goes
\* on for ever returning pages that carry a continuation token.
C19_ReturnsIfPagesEnd ==
    /\ [](hist.polls <= max_retries /\ attempt < max_retries)
    /\ ([]<>(pc # "fetch")) => <>Done

\* a run that returned after the last of max_retries polls succeeded and the
\* service handed out pages with tokens, and then one without
C19_Witness ==
    /\ Done
    /\ hist.polls = max_retries
    /\ hist.terminal = "SUCCEEDED"
    /\ Len(hist.tokens) = MaxPages
    /\ Truthy(hist.tokens[MaxPages])
    /\ ~Truthy(next_token)
    /\ response.statusCode = 200

\* the invocation with the locals r has a document in the store
Staged(r) == r.hist.putOK /\ r.hist.del # "ok"

\* the key and the job identifier the invocation with the locals r generated
Owned(r) == {r.pdf_key, r.job_id} \ {""}

\* the response of the invocation with the locals r follows from its own
\* event and from what the services answered to its own calls
OwnResponse(r) ==
    LET q == Get(BodyFields(r.event), "question")
        t == ExpectedText(r.hist.pages)
        p == prompt_of(t, q.v)
    IN  /\ ParseResult(r.event).statusCode # 0 => r.response = ParseResult(r.event)
        /\ r.hist.terminal = "FAILED" => r.response = FailedResponse(r.job_status)
        /\ r.response.statusCode = 200 =>
              /\ r.hist.prompt = p
              /\ r.response =
                    success_response(q.v, clean_answer(generated_text(r.hist.data).v, p), t)

\* what the invocation with the locals r did, next to the one with the locals o
OwnKeyAndJob(r, o) ==
    /\ r.hist.args \subseteq Owned(r)
    /\ r.hist.args \cap Owned(o) = {}
    /\ Owned(r) \cap Owned(o) = {}
    /\ Staged(r) => r.pdf_key \in s3
    /\ r.pdf_key \in s3 => Staged(r)
    /\ r.pc = "done" => OwnResponse(r)

\* C11: with two requests handled concurrently in any interleaving, each
\* request stores, submits to OCR and deletes only under its own generated key
\* and polls only its own job identifier; no request overwrites or deletes
\* the staged document of the other, and the response of a request follows
\* from its own input and the service responses to its own calls.
C11_OwnKeyAndJob ==
    /\ OwnKeyAndJob(Locals, parked)
    /\ OwnKeyAndJob(parked, Locals)
    /\ s3 \subseteq {pdf_key, parked.pdf_key}

\* one request has returned 200 and deleted its document while the document
\* of the other, which waits for its OCR job, is still in the store
C11_Witness ==
    /\ Done /\ response.statusCode = 200 /\ hist.del = "ok"
    /\ hist.args = {pdf_key, job_id}
    /\ parked.pc = "sleep" /\ parked.hist.args = {parked.pdf_key, parked.job_id}
    /\ parked.hist.log = <<"put", "start", "poll">>
    /\ hist.log = <<"put", "start", "poll", "fetch", "post", "delete">>
    /\ pdf_key = "uploads/e1c2.pdf" /\ job_id = "job-1"
    /\ s3 = {parked.pdf_key}

\* the 500 of the poll timeout, right after the last page was read
TimeoutAfterPages ==
    /\ Done
    /\ response = [statusCode |-> 500, headers |-> Headers,
                   body |-> [error |-> "Textract processing timeout",
                             details |-> "Textract processing timeout"]]
    /\ hist.polls = hist.terminalAt
    /\ LastCall \in {"poll", "fetch"}
    /\ calls.post = 0

\* the LINE blocks of the pages read
LinesRead == SelectSeq(AllBlocks(hist.pages), IsLineBlock)

\* C16, as stated: if the OCR job reaches SUCCEEDED and the pages hold no
\* LINE block or only LINE blocks with empty texts, lambda_handler returns
\* the 500 of the poll timeout, without another poll and without a call of
\* the inference endpoint.
C16_OnlyEmptyLines ==
    (PagesRead /\ \A i \in 1..Len(LinesRead) : TextOf(LinesRead[i]) = <<>>)
        => TimeoutAfterPages

\* C16, amended: if the OCR job reaches SUCCEEDED but ExtractedText is empty
\* after the last page, which is so exactly when the pages hold no LINE
\* block or a single LINE block with an empty text, lambda_handler returns
\* the 500 of the poll timeout, without another poll and without a call of
\* the inference endpoint.
C16_EmptyTextIsTimeout ==
    /\ PagesRead =>
          (text = <<>> <=>
              \/ Len(LinesRead) = 0
              \/ Len(LinesRead) = 1 /\ TextOf(LinesRead[1]) = <<>>)
    /\ (PagesRead /\ text = <<>>) =>
        /\ Done
        /\ response = [statusCode |-> 500, headers |-> Headers,
                       body |-> [error |-> "Textract processing timeout",
                                 details |-> "Textract processing timeout"]]
        /\ hist.polls = hist.terminalAt
        /\ hist.sleeps = hist.terminalAt - 1
        /\ LastCall \in {"poll", "fetch"}
        /\ calls.post = 0

\* the job succeeded on the first poll with two pages that hold no LINE text
C16_Witness ==
    /\ PagesRead /\ text = <<>> /\ Done
    /\ hist.terminalAt = 1
    /\ hist.pages = << <<LineNoText>>, <<PageBlock, Word>> >>
    /\ response.body.error = "Textract processing timeout"

====
